---- MODULE Spec2Model ----
(***************************************************************************)
(* FinancialMarketsMCP: the bounded executor of the forex service          *)
(* (MassiveForexService._execute_bounded), the error taxonomy and the      *)
(* error-to-message translator (handle_api_error).                         *)
(*                                                                         *)
(* Two groups of state:                                                    *)
(*  - the concurrent executor: caller tasks, the asyncio.Semaphore, the    *)
(*    worker threads asyncio.to_thread dispatches to (Spec, LiveSpec);     *)
(*  - one error flowing from the upstream call through the executor's      *)
(*    except chain into the tool's handle_api_error (ErrSpec).             *)
(* Further: one tool invocation from its arguments to the string it        *)
(* returns (ToolSpec), and one request through the HTTP application's      *)
(* logging middleware and the key check of the /mcp mount (HttpSpec).      *)
(***************************************************************************)
EXTENDS Naturals, Integers, Sequences, FiniteSets, TLC

(* ------------------------------ bounds -------------------------------- *)

\* Settings.FOREX_MAX_CONCURRENCY (10 by default), scaled down.
Capacity == 2

\* Caller tasks (tool invocations) that may be inside _execute_bounded.
NumCallers == 3

\* asyncio.to_thread runs the function on the event loop's default executor,
\* a thread pool of min(32, cpu_count + 4) workers whatever the capacity of
\* the semaphore is. PoolExtra is the number of its workers beyond Capacity
\* (the default capacity of 10 is below the pool size from 7 CPUs on).
PoolExtra == 1

Callers == 1..NumCallers

PoolSize == Capacity + PoolExtra

VARIABLES
    pc,          \* caller -> "idle" | "waiting" | "holding" | "awaiting" | "done"
    outcome,     \* caller -> how its last call ended ("none" while it runs)
    semValue,    \* asyncio.Semaphore._value: the free slots
    semWaiters,  \* asyncio.Semaphore._waiters: FIFO of suspended callers
    thr,         \* caller -> "none" | "queued" | "running": its blocking call
    hangs,       \* caller -> TRUE when its blocking function never returns
    execQueue,   \* work items the executor has not started yet (FIFO)
    orphans,     \* blocking calls still running that nobody awaits any more
    upstream,    \* "arbitrary" | "prompt": what the upstream calls do
    attempts,    \* caller -> times its call handed the blocking function to a worker
    stage,       \* ErrSpec: "start" | "raised" | "classified" | "replied" | "translated"
    exc,         \* ErrSpec: the exception the blocking function raised
    err,         \* ErrSpec: the error leaving _execute_bounded / given to the translator
    reply,       \* ErrSpec: the string the tool returns
    log,         \* ErrSpec: the log record of the translator's last call
    execLog,     \* ErrSpec: the log record of the executor's except chain
    tool,        \* ToolSpec: the tool (or service method) invoked
    args,        \* ToolSpec: its arguments [ticker, kind, limit]
    tstage,      \* ToolSpec: "idle" | "awaiting" | "done"
    failure,     \* ToolSpec: "none" | "validation" | "unsupported" | "service" | "format"
    svcCalls,    \* ToolSpec: the service methods the tool called
    slotsTaken,  \* ToolSpec: semaphore slots acquired for the invocation
    upCalls,     \* ToolSpec: the upstream client functions called
    svcOutcome,  \* ToolSpec: what the service call returned or raised
    handled,     \* ToolSpec: calls of handle_api_error in the invocation
    result,      \* ToolSpec: what the tool handler returned (or raised)
    events,      \* ToolSpec: the records monitor_tool logged in the invocation
    mcp_api_key, \* HttpSpec: SecureMCPWrapper.api_key (<<>>: None or empty)
    hstage,      \* HttpSpec: "idle" | "inner" | "app" | "returned" | "raising" | "done"
    scope,       \* HttpSpec: the ASGI scope of the request [type, path, key]
    statusCode,  \* HttpSpec: the cell status_code[0] of the logging middleware
    sent,        \* HttpSpec: statuses of the http.response.start messages sent
    httpLog,     \* HttpSpec: the records the logging middleware wrote
    hraised,     \* HttpSpec: the exception raised below the logging middleware
    propagated,  \* HttpSpec: the exception that left the logging middleware
    appInvoked,  \* HttpSpec: calls of the wrapped MCP application for the request
    clientStatus \* HttpSpec: the status the client is answered with (0: none)

execVars == <<pc, outcome, semValue, semWaiters, thr, hangs, execQueue, orphans, upstream,
              attempts>>

errVars == <<stage, exc, err, reply, log, execLog>>

toolVars == <<tool, args, tstage, failure, svcCalls, slotsTaken, upCalls, svcOutcome,
              handled, result, events>>

httpVars == <<mcp_api_key, hstage, scope, statusCode, sent, httpLog, hraised, propagated,
              appInvoked, clientStatus>>

vars == <<pc, outcome, semValue, semWaiters, thr, hangs, execQueue, orphans, upstream,
          attempts,
          stage, exc, err, reply, log, execLog,
          tool, args, tstage, failure, svcCalls, slotsTaken, upCalls, svcOutcome,
          handled, result, events,
          mcp_api_key, hstage, scope, statusCode, sent, httpLog, hraised, propagated,
          appInvoked, clientStatus>>

(* --------------------------- helper operators ------------------------- *)

Contains(s, x) == \E i \in 1..Len(s) : s[i] = x

Remove(s, x) == SelectSeq(s, LAMBDA y : y # x)

\* Callers that hold a slot of the semaphore (inside "async with").
Holders == {c \in Callers : pc[c] \in {"holding", "awaiting"}}

\* Worker threads that are running a blocking function.
Busy == Cardinality({c \in Callers : thr[c] = "running"}) + orphans

(* ----------------------- messages and exceptions ---------------------- *)

\* A message is a sequence of tokens: the substrings the code looks for
\* ("401", "429", "404"), the API key, a bare hexadecimal token of 32 or
\* more characters, and other text.
ApiKey == "KEY"

HexToken == "HEX"

Redacted == "[REDACTED]"

Tokens == {"401", "429", "404", ApiKey, HexToken, "txt"}

\* Longest message of an upstream exception, in tokens.
MaxMsgLen == 2

Messages == UNION {[1..n -> Tokens] : n \in 0..MaxMsgLen}

\* What the blocking SDK call can raise: the builtin TimeoutError, urllib3's
\* MaxRetryError and HTTPError, and any other Exception (the SDK's own).
NetworkTypes == {"MaxRetryError", "UrllibHTTPError"}

ExcTypes == {"TimeoutError", "Exception"} \cup NetworkTypes

Exceptions == [type : ExcTypes, msg : Messages]

\* One exception of every type with at most one token of message: enough to
\* take every branch of the except chain.
ShortExceptions == {e \in Exceptions : Len(e.msg) <= 1}

MkError(t, m) == [type |-> t, msg |-> m, status |-> 0]

NoError == MkError("none", <<>>)

\* The messages of the executor's raise statements.
TimedOutMsg == <<"External data provider timed out.">>

ConnectMsg == <<"Failed to connect to Forex Data Provider.">>

ConfigHintMsg == <<"Internal Configuration Error (API Key).">>

RateLimitMsg == <<"Forex data", "rate limit", "reached.">>

NotFoundMsg == <<"Resource not found.">>

ProviderErrorPrefix == "Provider Error:"

\* Mutant: no catch-all; an exception no branch knows leaves as it came.
ClassifyNoCatchAll(e) ==
    IF e.type = "TimeoutError" THEN MkError("ProviderTimeoutError", TimedOutMsg)
    ELSE IF e.type \in NetworkTypes THEN MkError("ProviderConnectionError", ConnectMsg)
    ELSE IF Contains(e.msg, "401") THEN MkError("ProviderConnectionError", ConfigHintMsg)
    ELSE IF Contains(e.msg, "429") THEN MkError("RateLimitExceeded", RateLimitMsg)
    ELSE IF Contains(e.msg, "404") THEN MkError("DataNotFound", NotFoundMsg)
    ELSE MkError(e.type, e.msg)

\* Mutant: the "429" test comes before the "401" test.
Classify429First(e) ==
    IF e.type = "TimeoutError" THEN MkError("ProviderTimeoutError", TimedOutMsg)
    ELSE IF e.type \in NetworkTypes THEN MkError("ProviderConnectionError", ConnectMsg)
    ELSE IF Contains(e.msg, "429") THEN MkError("RateLimitExceeded", RateLimitMsg)
    ELSE IF Contains(e.msg, "401") THEN MkError("ProviderConnectionError", ConfigHintMsg)
    ELSE IF Contains(e.msg, "404") THEN MkError("DataNotFound", NotFoundMsg)
    ELSE MkError("RuntimeError", <<ProviderErrorPrefix>> \o e.msg)

\* The except chain of _execute_bounded: the error raised to the caller for
\* exception e of the awaited call.
ClassifyException(e) ==
    IF e.type = "TimeoutError" THEN MkError("ProviderTimeoutError", TimedOutMsg)
    ELSE IF e.type \in NetworkTypes THEN MkError("ProviderConnectionError", ConnectMsg)
    ELSE IF Contains(e.msg, "401") THEN MkError("ProviderConnectionError", ConfigHintMsg)
    ELSE IF Contains(e.msg, "429") THEN MkError("RateLimitExceeded", RateLimitMsg)
    ELSE IF Contains(e.msg, "404") THEN MkError("DataNotFound", NotFoundMsg)
    ELSE MkError("RuntimeError", <<ProviderErrorPrefix>> \o e.msg)

\* custom_exceptions.py: the class hierarchy, as isinstance sees it.
IsInstance(t, cls) ==
    \/ t = cls
    \/ cls = "MCPError" /\ t \in {"ProviderConnectionError", "ProviderTimeoutError",
                                  "DataNotFound", "RateLimitExceeded", "InvalidInputError"}
    \/ cls = "ProviderConnectionError" /\ t = "ProviderTimeoutError"

\* The DomainError kind an error leaving the executor stands for.
Kind(e) ==
    IF e.type = "ProviderTimeoutError" THEN "Timeout"
    ELSE IF e.type = "ProviderConnectionError" THEN "ConnectionFailure"
    ELSE IF e.type = "DataNotFound" THEN "NotFound"
    ELSE IF e.type = "RateLimitExceeded" THEN "RateLimited"
    ELSE IF e.type = "InvalidInputError" THEN "InvalidInput"
    ELSE IF e.type = "RuntimeError" /\ Len(e.msg) > 0 /\ e.msg[1] = ProviderErrorPrefix
         THEN "Generic"
    ELSE "Unclassified"

DomainKinds == {"ConnectionFailure", "Timeout", "NotFound", "RateLimited",
                "InvalidInput", "Generic"}

(* ------------------------ the translator ------------------------------ *)

\* sanitize_message: every occurrence of the key (when one is given and
\* non-empty) and every bare hexadecimal token of 32+ characters is replaced.
sanitize_message(message, api_key) ==
    [i \in 1..Len(message) |->
        IF api_key # "" /\ message[i] = api_key THEN Redacted
        ELSE IF message[i] = HexToken THEN Redacted
        ELSE message[i]]

\* Status codes of a requests HTTPError's response; 0 stands for no response.
HttpStatuses == {0, 400, 401, 404, 418, 429, 500, 503}

\* requests.Response.__bool__ is Response.ok: false for a status of 400 or more.
ResponseTruthy(status) == status # 0 /\ status < 400

\* The legacy branch of handle_api_error for a requests HTTPError.
HttpErrorReply(status) ==
    LET status_code == IF ResponseTruthy(status) THEN status ELSE 0 IN
    IF status_code = 401 THEN <<"Error:", "Invalid API credentials.">>
    ELSE IF status_code = 429 THEN <<"Error:", "Rate limit", "exceeded.">>
    ELSE IF status_code = 400 THEN <<"Error:", "Invalid request parameters.">>
    ELSE IF status_code = 404 THEN <<"Error:", "Resource not found.">>
    ELSE IF status_code # 0 /\ 500 <= status_code /\ status_code < 600
         THEN <<"Error:", "External API internal error.">>
    ELSE <<"Error:", "API request failed with status code",
           IF status_code = 0 THEN "None" ELSE ToString(status_code)>>

\* Mutant: the ProviderConnectionError test comes before the test for its
\* subclass ProviderTimeoutError.
HandleConnectionFirst(error, api_key) ==
    IF IsInstance(error.type, "DataNotFound") THEN <<"Error:">> \o error.msg
    ELSE IF IsInstance(error.type, "RateLimitExceeded")
         THEN <<"Error:", "API", "rate limit",
                "exceeded. Please wait a moment before trying again.">>
    ELSE IF IsInstance(error.type, "InvalidInputError")
         THEN <<"Error:", "Invalid Input -">> \o error.msg
    ELSE IF IsInstance(error.type, "ProviderConnectionError")
         THEN <<"Error:", "Failed to connect to the external data provider.">>
    ELSE IF IsInstance(error.type, "ProviderTimeoutError")
         THEN <<"Error:", "The data provider timed out. Please try again.">>
    ELSE IF IsInstance(error.type, "MCPError") THEN <<"Error:">> \o error.msg
    ELSE IF error.type = "HTTPError" THEN HttpErrorReply(error.status)
    ELSE IF error.type = "ConnectionError" THEN <<"Error:", "Unable to connect to API.">>
    ELSE IF error.type = "RequestsTimeout" THEN <<"Error:", "Request timed out.">>
    ELSE <<"Error:", "An unexpected error occurred. Please try again.">>

\* handle_api_error: the string returned for an error value. The api_key
\* only reaches the log line; the returned text is built from str(error).
handle_api_error(error, api_key) ==
    IF IsInstance(error.type, "DataNotFound") THEN <<"Error:">> \o error.msg
    ELSE IF IsInstance(error.type, "RateLimitExceeded")
         THEN <<"Error:", "API", "rate limit",
                "exceeded. Please wait a moment before trying again.">>
    ELSE IF IsInstance(error.type, "InvalidInputError")
         THEN <<"Error:", "Invalid Input -">> \o error.msg
    ELSE IF IsInstance(error.type, "ProviderTimeoutError")
         THEN <<"Error:", "The data provider timed out. Please try again.">>
    ELSE IF IsInstance(error.type, "ProviderConnectionError")
         THEN <<"Error:", "Failed to connect to the external data provider.">>
    ELSE IF IsInstance(error.type, "MCPError") THEN <<"Error:">> \o error.msg
    ELSE IF error.type = "HTTPError" THEN HttpErrorReply(error.status)
    ELSE IF error.type = "ConnectionError" THEN <<"Error:", "Unable to connect to API.">>
    ELSE IF error.type = "RequestsTimeout" THEN <<"Error:", "Request timed out.">>
    ELSE <<"Error:", "An unexpected error occurred. Please try again.">>

\* The log record handle_api_error emits: the sanitized message, and with
\* exc_info=True the formatted exception, which carries str(error) as raised.
TranslatorLog(error, api_key) ==
    [message |-> <<"External API Error:">> \o sanitize_message(error.msg, api_key),
     exception |-> error.msg]

\* Case folding of the tokens that differ in case only.
Lower(tok) == IF tok = "Rate limit" THEN "rate limit" ELSE tok

ContainsCI(s, x) == \E i \in 1..Len(s) : Lower(s[i]) = x

\* Error values handed to the translator directly: every class it tests for,
\* with any short message, and an HTTPError with any response status.
ErrorTypes == {"MCPError", "ProviderConnectionError", "ProviderTimeoutError",
               "DataNotFound", "RateLimitExceeded", "InvalidInputError",
               "RuntimeError", "ValueError", "ConnectionError", "RequestsTimeout"}

ErrorValues ==
    {MkError(t, m) : t \in ErrorTypes, m \in {x \in Messages : Len(x) <= 1}}
    \cup {[type |-> "HTTPError", msg |-> m, status |-> st] :
              m \in {x \in Messages : Len(x) <= 1}, st \in HttpStatuses}

(* --------------------- the semaphore and the workers ------------------ *)

\* Mutant: release() puts the slot back but wakes nobody.
ReleaseSlotNoWake(c, st) ==
    /\ semValue' = semValue + 1
    /\ semWaiters' = semWaiters
    /\ pc' = [pc EXCEPT ![c] = st]

\* asyncio.Semaphore.release, run by caller c as it leaves "async with" and
\* ends in state st: the slot goes to the first suspended caller when there
\* is one (it is woken holding the slot), and back to the free count otherwise.
ReleaseSlot(c, st) ==
    IF semWaiters = <<>>
    THEN /\ semValue' = semValue + 1
         /\ semWaiters' = semWaiters
         /\ pc' = [pc EXCEPT ![c] = st]
    ELSE /\ semValue' = semValue
         /\ semWaiters' = Tail(semWaiters)
         /\ pc' = [pc EXCEPT ![c] = st, ![Head(semWaiters)] = "holding"]

\* A worker has become free: it takes the next work item of the executor.
\* t is the thread map after the finished call has been taken out.
WorkerFreed(t) ==
    IF execQueue = <<>>
    THEN thr' = t /\ execQueue' = execQueue
    ELSE thr' = [t EXCEPT ![Head(execQueue)] = "running"] /\ execQueue' = Tail(execQueue)

\* The awaited work item of caller c is abandoned (timeout or cancellation):
\* an item not yet started is cancelled and never runs; a running function
\* cannot be stopped and keeps its worker thread.
AbandonCall(c) ==
    IF thr[c] = "running"
    THEN /\ orphans' = orphans + 1
         /\ thr' = [thr EXCEPT ![c] = "none"]
         /\ execQueue' = execQueue
    ELSE /\ orphans' = orphans
         /\ thr' = [thr EXCEPT ![c] = "none"]
         /\ execQueue' = Remove(execQueue, c)

(* ----------------------- _execute_bounded, per caller ----------------- *)

\* "async with self._semaphore": take a free slot, or suspend in FIFO order.
Call(c) ==
    /\ pc[c] = "idle"
    /\ IF semValue > 0
       THEN /\ semValue' = semValue - 1
            /\ semWaiters' = semWaiters
            /\ pc' = [pc EXCEPT ![c] = "holding"]
       ELSE /\ semValue' = semValue
            /\ semWaiters' = Append(semWaiters, c)
            /\ pc' = [pc EXCEPT ![c] = "waiting"]
    /\ UNCHANGED <<outcome, thr, hangs, execQueue, orphans, upstream, attempts, errVars, toolVars, httpVars>>

\* asyncio.wait_for(asyncio.to_thread(func, ...)): the call is handed to the
\* executor, which runs it at once on a free worker and queues it otherwise.
Dispatch(c) ==
    /\ pc[c] = "holding"
    /\ pc' = [pc EXCEPT ![c] = "awaiting"]
    /\ \E h \in (IF upstream = "prompt" THEN {FALSE} ELSE BOOLEAN) :
           hangs' = [hangs EXCEPT ![c] = h]
    /\ IF Busy < PoolSize
       THEN thr' = [thr EXCEPT ![c] = "running"] /\ execQueue' = execQueue
       ELSE thr' = [thr EXCEPT ![c] = "queued"] /\ execQueue' = Append(execQueue, c)
    /\ attempts' = [attempts EXCEPT ![c] = @ + 1]
    /\ UNCHANGED <<outcome, semValue, semWaiters, orphans, upstream, errVars, toolVars, httpVars>>

\* The blocking function returns a result before the timeout: line 41 returns it.
FuncReturn(c) ==
    /\ pc[c] = "awaiting" /\ thr[c] = "running" /\ ~hangs[c]
    /\ outcome' = [outcome EXCEPT ![c] = "ok"]
    /\ WorkerFreed([thr EXCEPT ![c] = "none"])
    /\ ReleaseSlot(c, "done")
    /\ UNCHANGED <<hangs, orphans, upstream, attempts, errVars, toolVars, httpVars>>

\* The blocking function raises e before the timeout: the except chain.
FuncRaise(c, e) ==
    /\ pc[c] = "awaiting" /\ thr[c] = "running" /\ ~hangs[c]
    /\ upstream = "arbitrary"
    /\ outcome' = [outcome EXCEPT ![c] = Kind(ClassifyException(e))]
    /\ WorkerFreed([thr EXCEPT ![c] = "none"])
    /\ ReleaseSlot(c, "done")
    /\ UNCHANGED <<hangs, orphans, upstream, attempts, errVars, toolVars, httpVars>>

\* Mutant: the timeout clock runs from the entry of the call, so that it
\* also fires for a caller still suspended on the semaphore.
TimeoutFromEntry(c) ==
    /\ upstream = "arbitrary"
    /\ outcome' = [outcome EXCEPT ![c] = Kind(MkError("ProviderTimeoutError", TimedOutMsg))]
    /\ hangs' = [hangs EXCEPT ![c] = FALSE]
    /\ \/ /\ pc[c] = "waiting"
          /\ semWaiters' = Remove(semWaiters, c)
          /\ pc' = [pc EXCEPT ![c] = "done"]
          /\ UNCHANGED <<semValue, thr, execQueue, orphans>>
       \/ /\ pc[c] = "awaiting"
          /\ AbandonCall(c)
          /\ ReleaseSlot(c, "done")
    /\ UNCHANGED <<upstream, attempts, errVars, toolVars, httpVars>>

\* Mutant: on a timeout the call is tried again under the slot it holds.
TimeoutRetries(c) ==
    /\ pc[c] = "awaiting"
    /\ upstream = "arbitrary"
    /\ hangs' = [hangs EXCEPT ![c] = FALSE]
    /\ AbandonCall(c)
    /\ pc' = [pc EXCEPT ![c] = "holding"]
    /\ UNCHANGED <<outcome, semValue, semWaiters, upstream, attempts, errVars, toolVars, httpVars>>

\* Mutant: the timeout path raises without leaving "async with".
TimeoutKeepsSlot(c) ==
    /\ pc[c] = "awaiting"
    /\ upstream = "arbitrary"
    /\ outcome' = [outcome EXCEPT ![c] = "Timeout"]
    /\ hangs' = [hangs EXCEPT ![c] = FALSE]
    /\ AbandonCall(c)
    /\ pc' = [pc EXCEPT ![c] = "done"]
    /\ UNCHANGED <<semValue, semWaiters, upstream, attempts, errVars, toolVars, httpVars>>

\* The timeout of wait_for elapses first: lines 46-48.
Timeout(c) ==
    /\ pc[c] = "awaiting"
    /\ upstream = "arbitrary"
    /\ outcome' = [outcome EXCEPT ![c] = Kind(MkError("ProviderTimeoutError", TimedOutMsg))]
    /\ hangs' = [hangs EXCEPT ![c] = FALSE]
    /\ AbandonCall(c)
    /\ ReleaseSlot(c, "done")
    /\ UNCHANGED <<upstream, attempts, errVars, toolVars, httpVars>>

\* Mutant: a cancelled caller that awaits its call does not release.
CancelKeepsSlot(c) ==
    /\ upstream = "arbitrary"
    /\ pc[c] \in {"waiting", "holding", "awaiting"}
    /\ outcome' = [outcome EXCEPT ![c] = "Cancelled"]
    /\ semWaiters' = Remove(semWaiters, c)
    /\ pc' = [pc EXCEPT ![c] = "done"]
    /\ IF pc[c] = "awaiting" THEN AbandonCall(c) ELSE UNCHANGED <<thr, execQueue, orphans>>
    /\ hangs' = [hangs EXCEPT ![c] = FALSE]
    /\ UNCHANGED <<semValue, upstream, attempts, errVars, toolVars, httpVars>>

\* The calling task is cancelled at one of its suspension points:
\* CancelledError is no Exception, so no except clause takes it, and
\* "async with" gives the slot back.
Cancel(c) ==
    /\ upstream = "arbitrary"
    /\ outcome' = [outcome EXCEPT ![c] = "Cancelled"]
    /\ \/ /\ pc[c] = "waiting"
          /\ semWaiters' = Remove(semWaiters, c)
          /\ pc' = [pc EXCEPT ![c] = "done"]
          /\ UNCHANGED <<semValue, thr, execQueue, orphans>>
       \/ /\ pc[c] = "holding"
          /\ ReleaseSlot(c, "done")
          /\ UNCHANGED <<thr, execQueue, orphans>>
       \/ /\ pc[c] = "awaiting"
          /\ AbandonCall(c)
          /\ ReleaseSlot(c, "done")
    /\ hangs' = [hangs EXCEPT ![c] = FALSE]
    /\ UNCHANGED <<upstream, attempts, errVars, toolVars, httpVars>>

\* Mutant: the completion of an abandoned function gives a slot back.
OrphanReturnReleases ==
    /\ orphans > 0
    /\ orphans' = orphans - 1
    /\ semValue' = semValue + 1
    /\ WorkerFreed(thr)
    /\ UNCHANGED <<pc, outcome, semWaiters, hangs, upstream, attempts, errVars, toolVars, httpVars>>

\* A blocking function nobody awaits any more returns at last; its result
\* or exception is dropped and its worker takes the next work item.
OrphanReturn ==
    /\ orphans > 0
    /\ orphans' = orphans - 1
    /\ WorkerFreed(thr)
    /\ UNCHANGED <<pc, outcome, semValue, semWaiters, hangs, upstream, attempts, errVars, toolVars, httpVars>>

\* The caller has its result or error and may call again.
Return(c) ==
    /\ pc[c] = "done"
    /\ pc' = [pc EXCEPT ![c] = "idle"]
    /\ outcome' = [outcome EXCEPT ![c] = "none"]
    /\ attempts' = [attempts EXCEPT ![c] = 0]
    /\ UNCHANGED <<semValue, semWaiters, thr, hangs, execQueue, orphans, upstream, errVars, toolVars, httpVars>>

(* ------------------ one error, from upstream to the reply ------------- *)

NoException == [type |-> "none", msg |-> <<>>]

NoLog == [message |-> <<>>, exception |-> <<>>]

\* The blocking function of a forex service call raises e.
UpstreamRaises(e) ==
    /\ stage = "start"
    /\ exc' = e
    /\ stage' = "raised"
    /\ UNCHANGED <<err, reply, log, execLog, execVars, toolVars, httpVars>>

\* The log record the except chain of _execute_bounded emits for exception
\* e: the message as formatted, and with exc_info=True the traceback text,
\* which ends in str(e). The "429" and "404" branches log nothing.
ExecutorLog(e) ==
    IF e.type = "TimeoutError"
    THEN [message |-> <<"Massive API Request Timed Out">>, exception |-> <<>>]
    ELSE IF e.type \in NetworkTypes
    THEN [message |-> <<"Massive API Network Error:">> \o e.msg, exception |-> e.msg]
    ELSE IF Contains(e.msg, "401")
    THEN [message |-> <<"Massive API Key invalid!">>, exception |-> <<>>]
    ELSE IF Contains(e.msg, "429") \/ Contains(e.msg, "404") THEN NoLog
    ELSE [message |-> <<"Unexpected API Error:">> \o e.msg, exception |-> e.msg]

\* An error raised inside an except block keeps the exception being handled
\* as its context, and the formatted traceback prints that one first.
WithContext(rec, e) == [rec EXCEPT !.exception = e.msg \o @]

\* _execute_bounded catches it, logs, and raises the classified error.
ExecutorClassifies ==
    /\ stage = "raised"
    /\ err' = ClassifyException(exc)
    /\ execLog' = ExecutorLog(exc)
    /\ stage' = "classified"
    /\ UNCHANGED <<exc, reply, log, execVars, toolVars, httpVars>>

\* The forex tool's "except Exception as e: return handle_api_error(e, key)".
ToolTranslates ==
    /\ stage = "classified"
    /\ reply' = handle_api_error(err, ApiKey)
    /\ log' = WithContext(TranslatorLog(err, ApiKey), exc)
    /\ stage' = "replied"
    /\ UNCHANGED <<exc, err, execLog, execVars, toolVars, httpVars>>

\* handle_api_error called on any error value v (a domain error raised
\* elsewhere, a legacy requests exception, an unknown exception).
TranslateAny(v) ==
    /\ stage = "start"
    /\ err' = v
    /\ reply' = handle_api_error(v, ApiKey)
    /\ log' = TranslatorLog(v, ApiKey)
    /\ stage' = "translated"
    /\ UNCHANGED <<exc, execLog, execVars, toolVars, httpVars>>

\* The tool call is over; the next one starts afresh.
NextRequest ==
    /\ stage \in {"replied", "translated"}
    /\ stage' = "start"
    /\ exc' = NoException
    /\ err' = NoError
    /\ reply' = <<>>
    /\ log' = NoLog
    /\ execLog' = NoLog
    /\ UNCHANGED <<execVars, toolVars, httpVars>>

(* --------------------- tickers and their parsing ---------------------- *)

\* A ticker is a sequence of one-character strings.
Letters == {"A", "B", "C", "D", "E", "F", "G", "H", "I", "J", "K", "L", "N", "O",
            "R", "S", "T", "U", "V", "X"}

Digits == {"1"}

\* str.upper on one character: the lower-case letters of the model.
Upper(ch) ==
    IF ch = "a" THEN "A" ELSE IF ch = "b" THEN "B" ELSE IF ch = "c" THEN "C"
    ELSE IF ch = "e" THEN "E" ELSE IF ch = "t" THEN "T" ELSE IF ch = "x" THEN "X"
    ELSE ch

UpperStr(s) == [i \in 1..Len(s) |-> Upper(s[i])]

RECURSIVE LStrip(_)
LStrip(s) == IF s # <<>> /\ s[1] = " " THEN LStrip(Tail(s)) ELSE s

RECURSIVE RStrip(_)
RStrip(s) ==
    IF s # <<>> /\ s[Len(s)] = " " THEN RStrip(SubSeq(s, 1, Len(s) - 1)) ELSE s

\* str.strip
Strip(s) == RStrip(LStrip(s))

\* str.replace(a + b, ""): every occurrence of the two characters, left to
\* right, is removed.
RECURSIVE RemoveAll(_, _, _)
RemoveAll(s, a, b) ==
    IF Len(s) < 2 THEN s
    ELSE IF s[1] = a /\ s[2] = b THEN RemoveAll(SubSeq(s, 3, Len(s)), a, b)
    ELSE <<s[1]>> \o RemoveAll(Tail(s), a, b)

\* The positions of character ch in s.
Positions(s, ch) == {i \in 1..Len(s) : s[i] = ch}

\* _split_pair's first line: prefixes removed as written, then stripped and
\* upper-cased.
Clean(ticker) == UpperStr(Strip(RemoveAll(RemoveAll(ticker, "C", ":"), "X", ":")))

InvalidTickerError(ticker) ==
    MkError("InvalidInputError",
            <<"Invalid ticker format:">> \o ticker
                \o <<"Expected 6 chars (EURUSD) or hyphenated (EUR-USD).">>)

NoPair == [ok |-> FALSE, base |-> <<>>, quote |-> <<>>]

\* Mutant: the 6-character rule takes the first three characters and the
\* rest of any input of six characters or more.
SplitPairAtLeastSix(ticker) ==
    LET clean == Clean(ticker)
        hyphens == Positions(clean, "-")
    IN  IF Cardinality(hyphens) = 1
        THEN LET h == CHOOSE i \in hyphens : TRUE
             IN  [ok |-> TRUE, base |-> SubSeq(clean, 1, h - 1),
                  quote |-> SubSeq(clean, h + 1, Len(clean))]
        ELSE IF Len(clean) >= 6
        THEN [ok |-> TRUE, base |-> SubSeq(clean, 1, 3),
              quote |-> SubSeq(clean, 4, Len(clean))]
        ELSE NoPair

\* _split_pair: the pair for a ticker, ok = FALSE where it raises
\* InvalidInputError. split("-") gives two parts for exactly one hyphen; with
\* more hyphens the 6-character rule is tried next.
_split_pair(ticker) ==
    LET clean == Clean(ticker)
        hyphens == Positions(clean, "-")
    IN  IF Cardinality(hyphens) = 1
        THEN LET h == CHOOSE i \in hyphens : TRUE
             IN  [ok |-> TRUE, base |-> SubSeq(clean, 1, h - 1),
                  quote |-> SubSeq(clean, h + 1, Len(clean))]
        ELSE IF Len(clean) = 6
        THEN [ok |-> TRUE, base |-> SubSeq(clean, 1, 3),
              quote |-> SubSeq(clean, 4, 6)]
        ELSE NoPair

\* [A-Z0-9]{3,10}
IsSymbolBody(s) ==
    /\ Len(s) \in 3..10
    /\ \A i \in 1..Len(s) : s[i] \in Letters \cup Digits

\* The regular expression of ForexTickerInput: ^([A-Z]{1,2}:)?[A-Z0-9]{3,10}$
MatchesTickerPattern(v) ==
    \/ IsSymbolBody(v)
    \/ \E n \in 1..2 :
           /\ Len(v) > n
           /\ \A i \in 1..n : v[i] \in Letters
           /\ v[n + 1] = ":"
           /\ IsSymbolBody(SubSeq(v, n + 2, Len(v)))

\* ForexTickerInput.validate_ticker: the validated value, ok = FALSE where it
\* raises ValueError (a pydantic ValidationError for the caller).
validate_ticker(v) ==
    LET u == UpperStr(Strip(v))
    IN  [ok |-> MatchesTickerPattern(u), value |-> u]

\* Characters of the generated tickers, and the longest generated body.
TickerChars == {"A", "-"}

MaxTickerLen == 7

Prefixes == {<<>>, <<"C", ":">>, <<"X", ":">>, <<"c", ":">>}

EURUSD == <<"E", "U", "R", "U", "S", "D">>

EUR_USD == <<"E", "U", "R", "-", "U", "S", "D">>

\* The tickers the specification and the tests name.
NamedTickers ==
    {EURUSD, EUR_USD, <<"E", "U">>, EURUSD \o <<"X">>,
     <<"C", ":">> \o EURUSD, <<"X", ":", "B", "T", "C", "U", "S", "D">>,
     <<" ">> \o EURUSD \o <<" ">>,
     <<"a", "a", "a", "a", "a", "a">>, <<"a", "a", "a", "-", "a", "a", "a">>,
     <<"A", "A", "A", "C", ":", "A", "A", "A">>,
     <<"X", "C", ":", ":", "A", "A", "A">>,
     <<"I", "N", "V", "A", "L", "I", "D", "_", "T", "I", "C", "K", "E", "R",
       "_", "T", "O", "O", "_", "L", "O", "N", "G">>}

Tickers ==
    NamedTickers
    \cup {p \o b : p \in Prefixes,
                   b \in UNION {[1..n -> TickerChars] : n \in 0..MaxTickerLen}}

(* ----------------------------- the tools ------------------------------ *)

\* _ensure_prefix: stripped and upper-cased, both prefixes removed, "C:" put
\* in front.
_ensure_prefix(ticker) ==
    <<"C", ":">> \o RemoveAll(RemoveAll(UpperStr(Strip(ticker)), "X", ":"), "C", ":")

\* The tools modelled: one of every shape of handler.
ForexTools == {"get_forex_tickers", "get_forex_last_quote",
               "get_forex_historical_quotes", "get_forex_indicator"}

CryptoTools == {"get_crypto_prices"}

\* MassiveForexService.get_last_quote called as a method, whatever the caller.
DirectCall == "MassiveForexService.get_last_quote"

\* MassiveForexService.get_prev_day called as a method, whatever the caller.
DirectPrevDay == "MassiveForexService.get_prev_day"

DirectCalls == {DirectCall, DirectPrevDay}

\* str.split(sep)
RECURSIVE SplitOn(_, _)
SplitOn(s, sep) ==
    IF Positions(s, sep) = {} THEN <<s>>
    ELSE LET i == CHOOSE k \in Positions(s, sep) : \A j \in Positions(s, sep) : k <= j
         IN  <<SubSeq(s, 1, i - 1)>> \o SplitOn(SubSeq(s, i + 1, Len(s)), sep)

\* Mutant: the symbols are matched as given, without upper-casing.
ValidateSymbolsAsGiven(v) ==
    LET parts == SplitOn(v, ",")
        parsed == SelectSeq([i \in 1..Len(parts) |-> Strip(parts[i])],
                            LAMBDA x : x # <<>>)
    IN  [ok |-> /\ Strip(v) # <<>>
                /\ parsed # <<>>
                /\ \A i \in 1..Len(parsed) :
                       /\ Len(parsed[i]) \in 1..10
                       /\ \A j \in 1..Len(parsed[i]) : parsed[i][j] \in Letters \cup Digits,
         value |-> parsed]

\* CryptoPriceInput.validate_symbols: the list of symbols the joined value
\* splits back into; ok = FALSE where it raises ValueError.
validate_symbols(v) ==
    LET parts == SplitOn(v, ",")
        parsed == SelectSeq([i \in 1..Len(parts) |-> UpperStr(Strip(parts[i]))],
                            LAMBDA x : x # <<>>)
    IN  [ok |-> /\ Strip(v) # <<>>
                /\ parsed # <<>>
                /\ \A i \in 1..Len(parsed) :
                       /\ Len(parsed[i]) \in 1..10
                       /\ \A j \in 1..Len(parsed[i]) : parsed[i][j] \in Letters \cup Digits,
         value |-> parsed]

\* str.lower on the indicator names of the model.
LowerKind(k) ==
    IF k = "SMA" THEN "sma" ELSE IF k = "Macd" THEN "macd"
    ELSE IF k = "BOLLINGER" THEN "bollinger" ELSE k

\* Mutant: the indicator name is compared as given.
IndicatorMethodCaseSensitive(kind) ==
    IF kind = "sma" THEN "get_sma"
    ELSE IF kind = "ema" THEN "get_ema"
    ELSE IF kind = "macd" THEN "get_macd"
    ELSE IF kind = "rsi" THEN "get_rsi"
    ELSE IF kind = "bollinger" THEN "get_bollinger"
    ELSE "none"

\* get_forex_indicator's if/elif chain: the service method for an indicator
\* name, "none" for the else branch.
IndicatorMethod(kind) ==
    IF LowerKind(kind) = "sma" THEN "get_sma"
    ELSE IF LowerKind(kind) = "ema" THEN "get_ema"
    ELSE IF LowerKind(kind) = "macd" THEN "get_macd"
    ELSE IF LowerKind(kind) = "rsi" THEN "get_rsi"
    ELSE IF LowerKind(kind) = "bollinger" THEN "get_bollinger"
    ELSE "none"

\* The input model a tool builds from its arguments: ok = FALSE where
\* pydantic raises ValidationError, value what the tool hands on.
Validation(t, a) ==
    IF t = "get_forex_tickers"
    THEN [ok |-> a.limit >= 1 /\ a.limit <= 1000, value |-> <<ToString(a.limit)>>]
    ELSE IF t = "get_forex_historical_quotes"
    THEN [ok |-> validate_ticker(a.ticker).ok /\ a.limit >= 1 /\ a.limit <= 50000,
          value |-> validate_ticker(a.ticker).value]
    ELSE IF t \in {"get_forex_last_quote", "get_forex_indicator"}
    THEN validate_ticker(a.ticker)
    ELSE validate_symbols(a.ticker)

ValidationError(t, a) ==
    MkError("ValidationError", <<"1 validation error for", t, "Value error,">> \o a.ticker)

\* The service method a tool calls once its input is validated.
ServiceMethod(t, a) ==
    IF t = "get_forex_tickers" THEN "get_tickers"
    ELSE IF t = "get_forex_last_quote" THEN "get_last_quote"
    ELSE IF t = "get_forex_historical_quotes" THEN "get_historical_quotes"
    ELSE IF t = "get_forex_indicator" THEN IndicatorMethod(a.kind)
    ELSE "get_quotes"

\* The client function a service method runs, and its arguments.
UpstreamCall(method, value) ==
    IF method = "get_tickers" THEN [fn |-> "list_tickers", args |-> <<value>>]
    ELSE IF method = "get_historical_quotes"
    THEN [fn |-> "list_quotes", args |-> <<_ensure_prefix(value)>>]
    ELSE IF method = "get_bollinger"
    THEN [fn |-> "get_bollinger_bands", args |-> <<_ensure_prefix(value)>>]
    ELSE IF method = "get_quotes"
    THEN [fn |-> "requests.get", args |-> value]
    ELSE [fn |-> method, args |-> <<_ensure_prefix(value)>>]

NoEffect == [raised |-> FALSE, error |-> NoError, slots |-> 0, upstream |-> <<>>]

\* Mutant: the slot is taken and the client called before the ticker is parsed.
GetLastQuoteParseLate(ticker) ==
    [raised |-> ~_split_pair(ticker).ok,
     error |-> IF _split_pair(ticker).ok THEN NoError ELSE InvalidTickerError(ticker),
     slots |-> 1,
     upstream |-> <<[fn |-> "get_last_forex_quote",
                     args |-> <<_split_pair(ticker).base, _split_pair(ticker).quote>>]>>]

\* MassiveForexService.get_last_quote up to its await: the ticker is parsed
\* first; only then _execute_bounded takes a slot and runs the client's
\* get_last_forex_quote with base and quote.
get_last_quote(ticker) ==
    IF _split_pair(ticker).ok
    THEN [raised |-> FALSE, error |-> NoError, slots |-> 1,
          upstream |-> <<[fn |-> "get_last_forex_quote",
                          args |-> <<_split_pair(ticker).base, _split_pair(ticker).quote>>]>>]
    ELSE [NoEffect EXCEPT !.raised = TRUE, !.error = InvalidTickerError(ticker)]

\* MassiveForexService.get_prev_day up to its await: _execute_bounded takes
\* a slot and runs the client's get_previous_close_agg with the prefixed ticker.
get_prev_day(ticker) ==
    [NoEffect EXCEPT !.slots = 1,
                     !.upstream = <<[fn |-> "get_previous_close_agg",
                                     args |-> <<_ensure_prefix(ticker)>>]>>]

\* A service method called on its own, up to its await.
DirectEffect(t, ticker) ==
    IF t = DirectCall THEN get_last_quote(ticker) ELSE get_prev_day(ticker)

\* A service method up to its await.
ServiceEffect(t, method, value) ==
    IF method = "get_last_quote" THEN get_last_quote(value)
    ELSE [NoEffect EXCEPT !.slots = IF t \in CryptoTools THEN 0 ELSE 1,
                          !.upstream = <<UpstreamCall(method, value)>>]

\* The messages that hold "timed out" once lower-cased.
TimedOutTexts == {"External data provider timed out."}

MentionsTimedOut(msg) == \E i \in 1..Len(msg) : msg[i] \in TimedOutTexts

\* Mutant: the tools catch the domain errors only.
ToolExceptDomainOnly(t, e) ==
    IF IsInstance(e.type, "MCPError")
    THEN [raised |-> FALSE, handled |-> 1, text |-> handle_api_error(e, ApiKey)]
    ELSE [raised |-> TRUE, handled |-> 0, text |-> <<>>]

\* The "except Exception as e" clause of a tool: what the handler returns
\* for exception e and how often it calls handle_api_error.
ToolExcept(t, e) ==
    IF t = "get_forex_historical_quotes" /\ MentionsTimedOut(e.msg)
    THEN [raised |-> FALSE, handled |-> 0,
          text |-> <<"Error:", "Request timed out. Try specifying a narrower date range.">>]
    ELSE [raised |-> FALSE, handled |-> 1, text |-> handle_api_error(e, ApiKey)]

\* What a tool does with its arguments up to the await of the service call,
\* or to its return when it does not get that far.
ToolStart(t, a) ==
    LET val == Validation(t, a)
        m == ServiceMethod(t, a)
        eff == ServiceEffect(t, m, val.value)
        caught == ToolExcept(t, IF val.ok THEN eff.error ELSE ValidationError(t, a))
        answer == [raised |-> caught.raised, text |-> caught.text]
        nothing == [raised |-> FALSE, text |-> <<>>]
    IN  IF t \in DirectCalls
        THEN [done |-> DirectEffect(t, a.ticker).raised, failure |-> "none",
              calls |-> <<>>, effect |-> DirectEffect(t, a.ticker),
              handled |-> 0, result |-> nothing]
        ELSE IF ~val.ok /\ t \in CryptoTools
        THEN [done |-> TRUE, failure |-> "validation", calls |-> <<>>,
              effect |-> NoEffect, handled |-> 0,
              result |-> [raised |-> FALSE,
                          text |-> <<"Input Validation Error:">>
                                       \o ValidationError(t, a).msg]]
        ELSE IF ~val.ok
        THEN [done |-> TRUE, failure |-> "validation", calls |-> <<>>,
              effect |-> NoEffect, handled |-> caught.handled, result |-> answer]
        ELSE IF m = "none"
        THEN [done |-> TRUE, failure |-> "unsupported", calls |-> <<>>,
              effect |-> NoEffect, handled |-> 0,
              result |-> [raised |-> FALSE,
                          text |-> <<"Error:", "Unsupported indicator type.">>]]
        ELSE IF eff.raised
        THEN [done |-> TRUE, failure |-> "service",
              calls |-> <<[method |-> m, arg |-> val.value]>>, effect |-> eff,
              handled |-> caught.handled, result |-> answer]
        ELSE [done |-> FALSE, failure |-> "none",
              calls |-> <<[method |-> m, arg |-> val.value]>>, effect |-> eff,
              handled |-> 0, result |-> nothing]

\* What a service call ended with: the result it returned (shape) for the
\* value the client function gave it (given), or the error it raised.
NoOutcome == [kind |-> "none", shape |-> "none", given |-> "none", error |-> NoError]

\* The tools defined under @monitor_tool: the forex tools, all of them
\* coroutine functions.
MonitoredTools == ForexTools

\* What the call func(*args, **kwargs) hands the wrapper: a coroutine
\* function returns a coroutine object at once, its body not yet run.
FuncCall(t) == [isStr |-> FALSE, text |-> <<>>]

\* The wrapper's test of what func gave it.
is_error(r) == r.isStr /\ r.text # <<>> /\ r.text[1] = "Error:"

LogEvent(e, st) == [event |-> e, status |-> st]

\* The records the wrapper of monitor_tool logs when tool t is called: it
\* is a plain function, so that it logs both before it returns what func
\* gave it; a call that does not raise never reaches the crash branch.
monitor_tool(t) ==
    IF t \notin MonitoredTools THEN <<>>
    ELSE <<LogEvent("start", "none"),
           LogEvent("finish", IF is_error(FuncCall(t)) THEN "failure" ELSE "success")>>

\* A tool (or the service method) is invoked with arguments a.
Invoke(t, a) ==
    LET st == ToolStart(t, a) IN
    /\ tstage = "idle"
    /\ tool' = t
    /\ args' = a
    /\ tstage' = IF st.done THEN "done" ELSE "awaiting"
    /\ failure' = st.failure
    /\ svcCalls' = st.calls
    /\ slotsTaken' = st.effect.slots
    /\ upCalls' = st.effect.upstream
    /\ svcOutcome' = IF st.effect.raised
                     THEN [NoOutcome EXCEPT !.kind = "error", !.error = st.effect.error]
                     ELSE NoOutcome
    /\ handled' = st.handled
    /\ result' = st.result
    /\ events' = monitor_tool(t)
    /\ UNCHANGED <<execVars, errVars, httpVars>>

\* The shapes of a service result: data as the tool expects it, no data, and
\* a value the tool's formatting code cannot take (not a list, not a dict).
ResultShapes == {"data", "empty", "malformed"}

\* The text a tool builds from a service result; ok = FALSE where the
\* formatting code raises (TypeError, AttributeError).
FormatResult(t, shape) ==
    IF shape = "malformed" /\ t # "get_forex_last_quote"
    THEN [ok |-> FALSE, text |-> <<>>]
    ELSE IF shape = "data" THEN [ok |-> TRUE, text |-> <<t, "data">>]
    ELSE IF t \in CryptoTools
    THEN [ok |-> TRUE, text |-> <<"Error:", "No data returned from API.">>]
    ELSE IF t = "get_forex_last_quote"
    THEN [ok |-> TRUE, text |-> <<"Note:", "quotes unavailable or returned no data.">>]
    ELSE IF t = "get_forex_historical_quotes"
    THEN [ok |-> TRUE, text |-> <<"No historical quotes found">>]
    ELSE [ok |-> TRUE, text |-> <<t>>]

FormatError == MkError("TypeError", <<"txt">>)

\* The awaited service call returns a result of some shape; the tool formats
\* it (the service method called directly hands it on as it is).
ServiceReturns(shape) ==
    /\ tstage = "awaiting"
    /\ svcOutcome' = [NoOutcome EXCEPT !.kind = "result", !.shape = shape,
                                       !.given = shape]
    /\ tstage' = "done"
    /\ IF tool \in DirectCalls
       THEN UNCHANGED <<failure, handled, result>>
       ELSE IF FormatResult(tool, shape).ok
       THEN /\ result' = [raised |-> FALSE, text |-> FormatResult(tool, shape).text]
            /\ UNCHANGED <<failure, handled>>
       ELSE /\ failure' = "format"
            /\ handled' = handled + ToolExcept(tool, FormatError).handled
            /\ result' = [raised |-> ToolExcept(tool, FormatError).raised,
                          text |-> ToolExcept(tool, FormatError).text]
    /\ UNCHANGED <<tool, args, svcCalls, slotsTaken, upCalls, events, execVars, errVars, httpVars>>

\* The error the awaited service call raises to the tool: for a forex
\* service what _execute_bounded makes of the exception, for the crypto
\* service the requests exception as it is.
ServiceError(t, e) == IF t \in CryptoTools THEN e ELSE ClassifyException(e)

\* The awaited service call raises; the tool's except clause answers.
ServiceRaises(e) ==
    /\ tstage = "awaiting"
    /\ svcOutcome' = [NoOutcome EXCEPT !.kind = "error", !.error = ServiceError(tool, e)]
    /\ tstage' = "done"
    /\ IF tool \in DirectCalls
       THEN UNCHANGED <<failure, handled, result>>
       ELSE /\ failure' = "service"
            /\ handled' = handled + ToolExcept(tool, ServiceError(tool, e)).handled
            /\ result' = [raised |-> ToolExcept(tool, ServiceError(tool, e)).raised,
                          text |-> ToolExcept(tool, ServiceError(tool, e)).text]
    /\ UNCHANGED <<tool, args, svcCalls, slotsTaken, upCalls, events, execVars, errVars, httpVars>>

NoArgs == [ticker |-> <<>>, kind |-> "", limit |-> 100]

\* The invocation is over; the next one starts afresh.
NextInvocation ==
    /\ tstage = "done"
    /\ tstage' = "idle"
    /\ tool' = "none"
    /\ args' = NoArgs
    /\ failure' = "none"
    /\ svcCalls' = <<>>
    /\ slotsTaken' = 0
    /\ upCalls' = <<>>
    /\ svcOutcome' = NoOutcome
    /\ handled' = 0
    /\ result' = [raised |-> FALSE, text |-> <<>>]
    /\ events' = <<>>
    /\ UNCHANGED <<execVars, errVars, httpVars>>

\* The argument values tried.
Limits == {0, 1, 1000, 1001}

Kinds == {"sma", "SMA", "ema", "Macd", "rsi", "bollinger", "BOLLINGER", "vwap", ""}

CryptoSymbols ==
    {<<>>, <<" ">>, <<"B", "T", "C">>, <<"b", "t", "c">>,
     <<"B", "T", "C", ",", " ", "X", "R", "C">>, <<",">>,
     <<"I", "N", "V", "A", "L", "I", "D", "_", "S", "Y", "M", "B", "O", "L">>,
     <<"B", ",", ",", " ", "e", "1", " ">>, <<" ", ",", " ">>, <<"B", "T", "C", ",", "E", "-", "H">>,
     <<"A", "B", "C", "D", "E", "F", "G", "H", "I", "J", "K">>,
     <<"A", "B", "C", "D", "E", "F", "G", "H", "I", "J">>}

ToolArgs(t) ==
    IF t = "get_forex_tickers" THEN {[NoArgs EXCEPT !.limit = n] : n \in Limits}
    ELSE IF t \in {"get_forex_last_quote", DirectCall}
    THEN {[NoArgs EXCEPT !.ticker = tk] : tk \in Tickers}
    ELSE IF t = DirectPrevDay
    THEN {[NoArgs EXCEPT !.ticker = tk] : tk \in NamedTickers}
    ELSE IF t = "get_forex_historical_quotes"
    THEN {[NoArgs EXCEPT !.ticker = tk, !.limit = n] : tk \in NamedTickers, n \in Limits}
    ELSE IF t = "get_forex_indicator"
    THEN {[NoArgs EXCEPT !.ticker = tk, !.kind = k] : tk \in NamedTickers, k \in Kinds}
    ELSE {[NoArgs EXCEPT !.ticker = sy] : sy \in CryptoSymbols}

\* The exceptions a service call ends with: for the forex service those of
\* the blocking function and of wait_for, for the crypto service any error.
ServiceExceptions(t) ==
    IF t \in CryptoTools THEN {v \in ErrorValues : v.msg = <<>>} ELSE ShortExceptions

(* ------------------------ the HTTP application ------------------------ *)

\* Strings of this layer are sequences of code points, byte strings
\* sequences of byte values.

\* The key of the test client ("secret123"), two characters of it.
Secret123 == <<115, 49>>

\* settings.MCP_SERVER_API_KEY: unset (or empty), an ASCII key, a key with
\* a character beyond ASCII.
ApiKeys == {<<>>, Secret123, <<107, 233>>}

\* bytes.decode("utf-8") for sequences of one and two bytes per character;
\* ok = FALSE where it raises UnicodeDecodeError.
RECURSIVE Utf8Decode(_)
Utf8Decode(b) ==
    IF b = <<>> THEN [ok |-> TRUE, str |-> <<>>]
    ELSE IF b[1] < 128
    THEN LET rest == Utf8Decode(Tail(b))
         IN  [ok |-> rest.ok, str |-> <<b[1]>> \o rest.str]
    ELSE IF b[1] >= 194 /\ b[1] <= 223 /\ Len(b) >= 2 /\ b[2] >= 128 /\ b[2] <= 191
    THEN LET rest == Utf8Decode(SubSeq(b, 3, Len(b)))
         IN  [ok |-> rest.ok, str |-> <<(b[1] - 192) * 64 + (b[2] - 128)>> \o rest.str]
    ELSE [ok |-> FALSE, str |-> <<>>]

\* str.encode("utf8") for code points below 2048.
RECURSIVE Utf8Encode(_)
Utf8Encode(str) ==
    IF str = <<>> THEN <<>>
    ELSE (IF str[1] < 128 THEN <<str[1]>>
          ELSE <<192 + (str[1] \div 64), 128 + (str[1] % 64)>>) \o Utf8Encode(Tail(str))

\* secrets.compare_digest on two str: TypeError unless both are ASCII.
compare_digest(a, b) ==
    [raised |-> \/ \E i \in 1..Len(a) : a[i] >= 128
                \/ \E j \in 1..Len(b) : b[j] >= 128,
     equal |-> a = b]

ScopeTypes == {"http", "websocket", "lifespan"}

Paths == {"/mcp", "/api"}

\* The X-API-Key header of a request: absent, or present with a value.
NoHeader == [present |-> FALSE, value |-> <<>>]

KeyHeaders ==
    {NoHeader}
    \cup {[present |-> TRUE, value |-> v] :
              v \in {<<>>, Secret123, <<115, 50>>, <<115>>, <<107, 195, 169>>, <<255>>}}

Scopes == [type : ScopeTypes, path : Paths, key : KeyHeaders]

NoScope == [type |-> "none", path |-> "", key |-> NoHeader]

\* Mutant: the key test accepts a header that is a prefix of the key.
SecureMCPWrapperPrefix(sc, key) ==
    LET given == IF sc.key.present THEN sc.key.value ELSE <<>>
        client_key == Utf8Decode(given)
    IN  IF sc.type = "http" /\ key # <<>>
        THEN IF ~client_key.ok THEN "UnicodeDecodeError"
             ELSE IF compare_digest(client_key.str, key).raised THEN "TypeError"
             ELSE IF Len(client_key.str) <= Len(key)
                     /\ client_key.str = SubSeq(key, 1, Len(client_key.str))
             THEN "pass"
             ELSE "reject"
        ELSE "pass"

\* SecureMCPWrapper.__call__ up to its first await: "pass" where it hands
\* the request to the wrapped application, "reject" where it answers 403
\* itself, else the exception it raises.
SecureMCPWrapper(sc, key) ==
    LET given == IF sc.key.present THEN sc.key.value ELSE <<>>
        client_key == Utf8Decode(given)
    IN  IF sc.type = "http" /\ key # <<>>
        THEN IF ~client_key.ok THEN "UnicodeDecodeError"
             ELSE IF compare_digest(client_key.str, key).raised THEN "TypeError"
             ELSE IF ~compare_digest(client_key.str, key).equal THEN "reject"
             ELSE "pass"
        ELSE "pass"

\* A record of the logger "http_middleware".
LogLine(kind, status) == [kind |-> kind, status |-> status]

\* A request enters RequestLoggingMiddleware.__call__: for an HTTP scope
\* the status cell starts at 500 and the inner application is called with
\* wrapped_send; any other scope is handed on as it is.
Request(sc) ==
    /\ hstage = "idle"
    /\ hstage' = "inner"
    /\ scope' = sc
    /\ statusCode' = IF sc.type = "http" THEN 500 ELSE 0
    /\ UNCHANGED <<mcp_api_key, sent, httpLog, hraised, propagated, appInvoked, clientStatus,
                   execVars, errVars, toolVars>>

\* The router hands a request under /mcp to the mounted SecureMCPWrapper.
WrapperCall ==
    LET verdict == SecureMCPWrapper(scope, mcp_api_key) IN
    /\ hstage = "inner"
    /\ scope.path = "/mcp" /\ scope.type # "lifespan"
    /\ IF verdict = "pass"
       THEN /\ appInvoked' = appInvoked + 1
            /\ hstage' = "app"
            /\ UNCHANGED <<sent, statusCode, hraised>>
       ELSE IF verdict = "reject"
       THEN /\ sent' = Append(sent, 403)
            /\ statusCode' = 403
            /\ hstage' = "returned"
            /\ UNCHANGED <<appInvoked, hraised>>
       ELSE /\ hraised' = verdict
            /\ hstage' = "raising"
            /\ UNCHANGED <<appInvoked, sent, statusCode>>
    /\ UNCHANGED <<mcp_api_key, scope, httpLog, propagated, clientStatus, execVars, errVars, toolVars>>

\* Any other request goes to the application's own routes (and a lifespan
\* scope to the router itself).
RouteCall ==
    /\ hstage = "inner"
    /\ scope.path # "/mcp" \/ scope.type = "lifespan"
    /\ hstage' = "app"
    /\ UNCHANGED <<mcp_api_key, scope, statusCode, sent, httpLog, hraised, propagated,
                   appInvoked, clientStatus, execVars, errVars, toolVars>>

\* The inner application sends http.response.start: wrapped_send notes the
\* status and passes the message on.
AppSends(st) ==
    /\ hstage = "app"
    /\ scope.type = "http"
    /\ sent = <<>>
    /\ sent' = Append(sent, st)
    /\ statusCode' = st
    /\ UNCHANGED <<mcp_api_key, hstage, scope, httpLog, hraised, propagated, appInvoked,
                   clientStatus, execVars, errVars, toolVars>>

\* The inner application returns.
AppReturns ==
    /\ hstage = "app"
    /\ hstage' = "returned"
    /\ UNCHANGED <<mcp_api_key, scope, statusCode, sent, httpLog, hraised, propagated,
                   appInvoked, clientStatus, execVars, errVars, toolVars>>

\* The inner application raises e (CancelledError is no Exception).
AppRaises(e) ==
    /\ hstage = "app"
    /\ hstage' = "raising"
    /\ hraised' = e
    /\ UNCHANGED <<mcp_api_key, scope, statusCode, sent, httpLog, propagated, appInvoked,
                   clientStatus, execVars, errVars, toolVars>>

\* What the client gets: the response that was started, else the 500 of the
\* handler registered for Exception, else nothing.
Answered ==
    IF sent # <<>> THEN sent[1]
    ELSE IF scope.type = "http" /\ hraised \notin {"none", "CancelledError"} THEN 500
    ELSE 0

\* Mutant: the request line is written on the way out of a call that
\* returned, not in a finally clause.
MiddlewareExitNoFinally ==
    /\ hstage \in {"returned", "raising"}
    /\ hstage' = "done"
    /\ httpLog' = IF scope.type # "http" THEN httpLog
                  ELSE IF hstage = "raising"
                  THEN IF hraised # "CancelledError"
                       THEN Append(httpLog, LogLine("error", 0)) ELSE httpLog
                  ELSE Append(httpLog, LogLine("request", statusCode))
    /\ propagated' = hraised
    /\ clientStatus' = Answered
    /\ UNCHANGED <<mcp_api_key, scope, statusCode, sent, hraised, appInvoked,
                   execVars, errVars, toolVars>>

\* The call of the inner application is over: for an HTTP scope the except
\* clause logs an Exception and raises it again, and the finally clause
\* writes the request line with the status in the cell; for any other scope
\* nothing is logged.
MiddlewareExit ==
    /\ hstage \in {"returned", "raising"}
    /\ hstage' = "done"
    /\ httpLog' = IF scope.type # "http" THEN httpLog
                  ELSE (IF hstage = "raising" /\ hraised # "CancelledError"
                        THEN Append(httpLog, LogLine("error", 0)) ELSE httpLog)
                       \o <<LogLine("request", statusCode)>>
    /\ propagated' = hraised
    /\ clientStatus' = Answered
    /\ UNCHANGED <<mcp_api_key, scope, statusCode, sent, hraised, appInvoked,
                   execVars, errVars, toolVars>>

\* The request is over; the next one starts afresh.
NextHttpRequest ==
    /\ hstage = "done"
    /\ hstage' = "idle"
    /\ scope' = NoScope
    /\ statusCode' = 0
    /\ sent' = <<>>
    /\ httpLog' = <<>>
    /\ hraised' = "none"
    /\ propagated' = "none"
    /\ appInvoked' = 0
    /\ clientStatus' = 0
    /\ UNCHANGED <<mcp_api_key, execVars, errVars, toolVars>>

(* --------------------------- specifications --------------------------- *)

\* Everything but the configured server key.
CoreInit ==
    /\ pc = [c \in Callers |-> "idle"]
    /\ outcome = [c \in Callers |-> "none"]
    /\ semValue = Capacity
    /\ semWaiters = <<>>
    /\ thr = [c \in Callers |-> "none"]
    /\ hangs = [c \in Callers |-> FALSE]
    /\ execQueue = <<>>
    /\ orphans = 0
    /\ upstream \in {"arbitrary", "prompt"}
    /\ attempts = [c \in Callers |-> 0]
    /\ stage = "start"
    /\ exc = NoException
    /\ err = NoError
    /\ reply = <<>>
    /\ log = NoLog
    /\ execLog = NoLog
    /\ tool = "none"
    /\ args = NoArgs
    /\ tstage = "idle"
    /\ failure = "none"
    /\ svcCalls = <<>>
    /\ slotsTaken = 0
    /\ upCalls = <<>>
    /\ svcOutcome = NoOutcome
    /\ handled = 0
    /\ result = [raised |-> FALSE, text |-> <<>>]
    /\ events = <<>>
    /\ hstage = "idle"
    /\ scope = NoScope
    /\ statusCode = 0
    /\ sent = <<>>
    /\ httpLog = <<>>
    /\ hraised = "none"
    /\ propagated = "none"
    /\ appInvoked = 0
    /\ clientStatus = 0

\* AppSettings.MCP_SERVER_API_KEY is None unless the environment sets it.
Init == CoreInit /\ mcp_api_key = <<>>

\* The executor under any interleaving of callers, completions, timeouts
\* and cancellations.
Next ==
    \/ \E c \in Callers : Call(c)
    \/ \E c \in Callers : Dispatch(c)
    \/ \E c \in Callers : FuncReturn(c)
    \/ \E c \in Callers : \E e \in ShortExceptions : FuncRaise(c, e)
    \/ \E c \in Callers : Timeout(c)
    \/ \E c \in Callers : Cancel(c)
    \/ OrphanReturn
    \/ \E c \in Callers : Return(c)

Spec == Init /\ [][Next]_vars

\* The executor when no calling task is cancelled from outside.
NextLive ==
    \/ \E c \in Callers : Call(c)
    \/ \E c \in Callers : Dispatch(c)
    \/ \E c \in Callers : FuncReturn(c)
    \/ \E c \in Callers : \E e \in ShortExceptions : FuncRaise(c, e)
    \/ \E c \in Callers : Timeout(c)
    \/ OrphanReturn
    \/ \E c \in Callers : Return(c)

\* The event loop runs every task that is ready, the timer of wait_for
\* fires, and a blocking function that does not hang returns.
Fairness ==
    \A c \in Callers :
        /\ WF_vars(Dispatch(c))
        /\ WF_vars(Timeout(c))
        /\ WF_vars(FuncReturn(c))

LiveSpec == Init /\ [][NextLive]_vars /\ Fairness

\* One error at a time through the executor's except chain and the translator.
NextErr ==
    \/ \E e \in Exceptions : UpstreamRaises(e)
    \/ ExecutorClassifies
    \/ ToolTranslates
    \/ \E v \in ErrorValues : TranslateAny(v)
    \/ NextRequest

ErrSpec == Init /\ [][NextErr]_vars

\* One tool invocation at a time, from the arguments to the returned string.
NextTool ==
    \/ /\ tstage = "idle"
       /\ \E t \in ForexTools \cup CryptoTools \cup DirectCalls :
              \E a \in ToolArgs(t) : Invoke(t, a)
    \/ \E shape \in ResultShapes : ServiceReturns(shape)
    \/ /\ tstage = "awaiting"
       /\ \E e \in ServiceExceptions(tool) : ServiceRaises(e)
    \/ NextInvocation

ToolInit == Init /\ upstream = "arbitrary"

ToolSpec == ToolInit /\ [][NextTool]_vars

\* One request after the other through the logging middleware and, under
\* /mcp, the key check, for every configured key.
NextHttp ==
    \/ /\ hstage = "idle"
       /\ \E sc \in Scopes : Request(sc)
    \/ WrapperCall
    \/ RouteCall
    \/ \E st \in {200, 404} : AppSends(st)
    \/ AppReturns
    \/ \E e \in {"Exception", "CancelledError"} : AppRaises(e)
    \/ MiddlewareExit
    \/ NextHttpRequest

HttpInit == CoreInit /\ upstream = "arbitrary" /\ mcp_api_key \in ApiKeys

HttpSpec == HttpInit /\ [][NextHttp]_vars

(* ============================== claims ================================ *)

\* Blocking upstream functions executing on worker threads right now: from
\* the start on a worker until the function itself returns, awaited or not.
Executing == Busy

\* C1 (as claimed): under any interleaving of callers, completions and
\* timeouts, the number of upstream blocking calls executing at the same
\* time never exceeds the capacity of the semaphore.
C1_ExecutingWithinCapacity == Executing <= Capacity

\* C2: every acquired slot is released exactly once on every exit path
\* (result, classified exception, timeout, cancellation): free slots plus
\* slots held by callers in progress equal the capacity, and the free count
\* stays within 0..Capacity.
C2_SlotsConserved ==
    /\ semValue + Cardinality(Holders) = Capacity
    /\ semValue \in 0..Capacity

\* C2 witness: calls have ended by timeout and by cancellation, a call is
\* in progress, and the count is as it should be.
C2_Witness ==
    /\ \E c \in Callers : pc[c] = "done" /\ outcome[c] = "Cancelled"
    /\ \E c \in Callers : pc[c] = "done" /\ outcome[c] = "Timeout"
    /\ \E c \in Callers : pc[c] = "awaiting"
    /\ semValue = Capacity - 1

\* C3: a call whose blocking function never returns ends with the Timeout
\* error, its slot released by then (the slot count is exact at that point),
\* and no call issued afterwards deadlocks: every call in progress ends.
C3_HungCallTimesOut ==
    /\ \A c \in Callers :
           (pc[c] = "awaiting" /\ hangs[c])
               ~> (pc[c] = "done" /\ outcome[c] = "Timeout"
                   /\ semValue + Cardinality(Holders) = Capacity)
    /\ \A c \in Callers : (pc[c] # "idle") ~> (pc[c] = "done")

\* C3 witness: a hung call has timed out, its function still occupies a
\* worker, and Capacity further calls are running.
C3_Witness ==
    /\ \E c \in Callers : pc[c] = "done" /\ outcome[c] = "Timeout"
    /\ orphans >= 1
    /\ Cardinality({c \in Callers : pc[c] = "awaiting" /\ thr[c] = "running"}) = Capacity

\* C4 (as claimed): up to Capacity simultaneous calls all have their
\* blocking functions executing, none of them waiting; a caller is suspended
\* only while Capacity calls hold slots, and its function is not started.
C4_HoldersAllExecuting ==
    /\ \A c \in Callers : pc[c] = "awaiting" => thr[c] = "running"
    /\ semWaiters # <<>> => Cardinality(Holders) = Capacity
    /\ \A c \in Callers : pc[c] = "waiting" => thr[c] = "none"

\* C5: every caller suspended on the semaphore eventually holds a slot; and
\* when every blocking function returns a result before the timeout, every
\* call, the queued ones included, ends with that result.
C5_WaitersAcquire ==
    /\ \A c \in Callers : (pc[c] = "waiting") ~> (pc[c] = "holding")
    /\ upstream = "prompt" =>
           \A c \in Callers : (pc[c] # "idle") ~> (pc[c] = "done" /\ outcome[c] = "ok")

\* C5 witness: Capacity callers hold the slots, a further caller is
\* suspended, and the upstream calls are the prompt ones.
C5_Witness ==
    /\ upstream = "prompt"
    /\ Cardinality(Holders) = Capacity
    /\ Len(semWaiters) = NumCallers - Capacity

\* The exception at hand is none of the types the except chain names.
OtherException == exc.type = "Exception"

\* C6: no unclassified exception leaves _execute_bounded: whatever the
\* blocking function raises, the error the caller gets is of one of the six
\* kinds (Generic being the RuntimeError "Provider Error: ...").
C6_AlwaysClassified ==
    stage \in {"classified", "replied"} => Kind(err) \in DomainKinds

\* C6 witness: an exception no branch knows has been classified as Generic.
C6_Witness ==
    /\ stage = "classified"
    /\ OtherException /\ exc.msg = <<"txt">>
    /\ Kind(err) = "Generic"

\* C7 (as claimed): network failure -> ConnectionFailure; else HTTP 401 ->
\* ConnectionFailure with the configuration hint, without the key; else
\* HTTP 429 -> RateLimited; else HTTP 404 -> NotFound; any other exception
\* -> Generic.
C7_ClassificationAsClaimed ==
    stage = "classified" =>
        IF exc.type \in NetworkTypes THEN Kind(err) = "ConnectionFailure"
        ELSE IF Contains(exc.msg, "401")
             THEN /\ Kind(err) = "ConnectionFailure"
                  /\ err.msg = ConfigHintMsg
                  /\ ~Contains(err.msg, ApiKey)
        ELSE IF Contains(exc.msg, "429") THEN Kind(err) = "RateLimited"
        ELSE IF Contains(exc.msg, "404") THEN Kind(err) = "NotFound"
        ELSE Kind(err) = "Generic"

\* C7 (amended): a TimeoutError raised by the function -> Timeout; a urllib3
\* MaxRetryError or HTTPError -> ConnectionFailure whatever its message; any
\* other exception by the first of "401", "429", "404" its message holds
\* (401 -> ConnectionFailure with the hint and no key, 429 -> RateLimited,
\* 404 -> NotFound) and Generic when it holds none.
C7_Classification ==
    stage = "classified" =>
        /\ exc.type = "TimeoutError" => Kind(err) = "Timeout"
        /\ exc.type \in NetworkTypes =>
               Kind(err) = "ConnectionFailure" /\ err.msg = ConnectMsg
        /\ OtherException /\ Contains(exc.msg, "401") =>
               /\ Kind(err) = "ConnectionFailure"
               /\ err.msg = ConfigHintMsg
               /\ ~Contains(err.msg, ApiKey)
        /\ OtherException /\ ~Contains(exc.msg, "401") /\ Contains(exc.msg, "429") =>
               Kind(err) = "RateLimited"
        /\ OtherException /\ ~Contains(exc.msg, "401") /\ ~Contains(exc.msg, "429")
               /\ Contains(exc.msg, "404") =>
               Kind(err) = "NotFound"
        /\ OtherException /\ ~Contains(exc.msg, "401") /\ ~Contains(exc.msg, "429")
               /\ ~Contains(exc.msg, "404") =>
               Kind(err) = "Generic"

\* C7 witness: an SDK exception whose message holds "401" and the key has
\* been classified, the hint in place of the message.
C7_Witness ==
    /\ stage = "classified"
    /\ OtherException /\ exc.msg = <<"401", ApiKey>>
    /\ err.msg = ConfigHintMsg

\* C8 (as claimed): whenever the message of the upstream exception holds
\* "429", whatever its type, the executor yields RateLimited and the forex
\* tool's reply holds "rate limit" (case-insensitive).
C8_RateLimitReported ==
    stage = "replied" /\ Contains(exc.msg, "429") =>
        Kind(err) = "RateLimited" /\ ContainsCI(reply, "rate limit")

\* C9 (as claimed): no error raised out of _execute_bounded carries the API
\* key or a 32+ character hexadecimal token in its message.
C9_NoSecretInError ==
    stage \in {"classified", "replied"} =>
        ~Contains(err.msg, ApiKey) /\ ~Contains(err.msg, HexToken)

\* C10 (as claimed): the string handle_api_error returns never holds the
\* secret it was given, whatever the error value and its message.
C10_NoSecretInReply ==
    stage \in {"replied", "translated"} => ~Contains(reply, ApiKey)

\* The API key or a bare hexadecimal token of 32+ characters is in text s.
HoldsSecret(s) == Contains(s, ApiKey) \/ Contains(s, HexToken)

\* C11 (as claimed): no log record emitted while an error is classified or
\* translated (the executor's error log, the translator's structured line,
\* each with the exception text attached to it) holds the API key or a 32+
\* character hexadecimal token of the underlying exception's message.
C11_NoSecretInLogs ==
    \A rec \in {execLog, log} :
        ~HoldsSecret(rec.message) /\ ~HoldsSecret(rec.exception)

\* The exception classes handle_api_error has no branch for.
Unrecognized(e) == e.type \in {"RuntimeError", "ValueError"}

\* C12: handle_api_error returns a string for every error value and never
\* re-raises; the string is fixed by the kind of the error (and its message
\* where the template quotes it): Timeout gets the timed-out text and not
\* the connection-failure text, and an exception of no known class, Generic
\* included, gets 'An unexpected error occurred'.
C12_TranslationTotal ==
    stage \in {"replied", "translated"} =>
        /\ reply # <<>> /\ reply[1] = "Error:"
        /\ Kind(err) = "Timeout" =>
               reply = <<"Error:", "The data provider timed out. Please try again.">>
        /\ Kind(err) = "ConnectionFailure" =>
               reply = <<"Error:", "Failed to connect to the external data provider.">>
        /\ Kind(err) = "NotFound" => reply = <<"Error:">> \o err.msg
        /\ Kind(err) = "RateLimited" =>
               reply = <<"Error:", "API", "rate limit",
                         "exceeded. Please wait a moment before trying again.">>
        /\ Kind(err) = "InvalidInput" =>
               reply = <<"Error:", "Invalid Input -">> \o err.msg
        /\ Kind(err) = "Generic" \/ Unrecognized(err) =>
               reply = <<"Error:", "An unexpected error occurred. Please try again.">>

\* C12 witness: a ProviderTimeoutError handed to the translator got the
\* timed-out text.
C12_Witness ==
    /\ stage = "translated"
    /\ err.type = "ProviderTimeoutError"
    /\ reply = <<"Error:", "The data provider timed out. Please try again.">>

\* The invocation at hand is of a tool (not of the service method) and over.
ToolDone == tstage = "done" /\ tool \in ForexTools \cup CryptoTools

\* C13: every forex and crypto tool invocation, whatever its arguments and
\* whatever the service call gives (a result of any shape, a domain error,
\* any exception), ends by returning a string: nothing is raised out of the
\* handler.
C13_ToolsReturnStrings ==
    ToolDone => ~result.raised /\ result.text # <<>>

\* C13 witness: a crypto tool has answered a result it could not format, a
\* forex tool an exception that is no domain error.
C13_Witness ==
    /\ ToolDone
    /\ \/ tool \in CryptoTools /\ failure = "format"
       \/ tool \in ForexTools /\ svcOutcome.error.type = "RuntimeError"
    /\ result.text = <<"Error:", "An unexpected error occurred. Please try again.">>

\* C14 (as claimed): whenever a tool call fails (input validation failure,
\* domain error, unexpected exception), the string returned begins with
\* "Error: ", in every forex and crypto tool.
C14_FailuresStartWithError ==
    ToolDone /\ failure # "none" =>
        result.text # <<>> /\ result.text[1] = "Error:"

\* The service method get_last_quote has been called on its own.
DirectCalled == tool = DirectCall /\ tstage # "idle"

\* The ticker of the call, prefixes removed, is of one of the two forms:
\* exactly six characters, or two parts around one hyphen.
WellFormed ==
    \/ Len(Clean(args.ticker)) = 6
    \/ Cardinality(Positions(Clean(args.ticker), "-")) = 1

\* The pair the client function was called with.
PairUsed == upCalls[1].args

EUR == <<"E", "U", "R">>

USD == <<"U", "S", "D">>

\* C15: _split_pair returns a pair exactly for the tickers that, prefixes
\* removed, are six characters long or hyphenated into two parts, and raises
\* InvalidInputError for all others; the pair is made of the characters of
\* the input (nothing defaulted); 'EURUSD' and 'EUR-USD' give ('EUR','USD'),
\* 'EU' and 'EURUSDX' raise.
C15_SplitPair ==
    DirectCalled =>
        /\ upCalls # <<>> <=> WellFormed
        /\ upCalls = <<>> =>
               svcOutcome.kind = "error" /\ svcOutcome.error.type = "InvalidInputError"
        /\ upCalls # <<>> =>
               \/ PairUsed[1] \o <<"-">> \o PairUsed[2] = Clean(args.ticker)
               \/ /\ PairUsed[1] \o PairUsed[2] = Clean(args.ticker)
                  /\ Len(PairUsed[1]) = 3 /\ Len(PairUsed[2]) = 3
        /\ args.ticker \in {EURUSD, EUR_USD} => upCalls # <<>> /\ PairUsed = <<EUR, USD>>
        /\ args.ticker \in {<<"E", "U">>, EURUSD \o <<"X">>} => upCalls = <<>>

\* C15 witness: 'EUR-USD' has been parsed to ('EUR','USD').
C15_Witness ==
    /\ DirectCalled
    /\ args.ticker = EUR_USD
    /\ PairUsed = <<EUR, USD>>

\* C16: get_last_quote with a malformed ticker fails with InvalidInput
\* before anything else: no slot is acquired and the client's quote function
\* is not called; with a well-formed ticker the client function is called
\* once, under one slot, with exactly the parsed (base, quote), and what it
\* returns is returned as it is.
C16_ParseBeforeAnything ==
    DirectCalled =>
        /\ ~WellFormed =>
               /\ tstage = "done"
               /\ svcOutcome.kind = "error"
               /\ svcOutcome.error.type = "InvalidInputError"
               /\ slotsTaken = 0
               /\ upCalls = <<>>
        /\ WellFormed =>
               /\ slotsTaken = 1
               /\ upCalls = <<[fn |-> "get_last_forex_quote",
                               args |-> <<_split_pair(args.ticker).base,
                                          _split_pair(args.ticker).quote>>]>>
               /\ svcOutcome.kind = "result" => svcOutcome.shape = svcOutcome.given

\* C16 witness: the call with 'EU' is over, failed, with no slot taken and
\* no client call.
C16_Witness ==
    /\ DirectCalled
    /\ args.ticker = <<"E", "U">>
    /\ svcOutcome.error.type = "InvalidInputError"
    /\ slotsTaken = 0

\* get_forex_last_quote has been invoked.
LastQuoteCalled == tool = "get_forex_last_quote" /\ tstage # "idle"

\* C17 (as claimed): a ticker in either accepted form, 'EURUSD' or
\* 'EUR-USD', given to get_forex_last_quote passes validation, is parsed to
\* ('EUR','USD') and reaches the upstream quote call; and every ticker the
\* validation accepts is one the parser accepts.
C17_ValidationAgreesWithParser ==
    LastQuoteCalled =>
        /\ args.ticker \in {EURUSD, EUR_USD} =>
               /\ failure # "validation"
               /\ upCalls # <<>>
               /\ PairUsed = <<EUR, USD>>
        /\ failure # "validation" => svcOutcome.error.type # "InvalidInputError"

InputValidationError == "Input Validation Error:"

\* C18 (as claimed): for every ticker that fails ForexTickerInput
\* validation, get_forex_last_quote returns a string holding "Input
\* Validation Error" and the forex service is not called; for 'EURUSD',
\* 'C:EURUSD' and 'X:BTCUSD' the string does not hold it.
C18_ValidationErrorReported ==
    LastQuoteCalled /\ tstage = "done" =>
        /\ failure = "validation" =>
               Contains(result.text, InputValidationError) /\ svcCalls = <<>>
        /\ args.ticker \in {EURUSD, <<"C", ":">> \o EURUSD,
                            <<"X", ":", "B", "T", "C", "U", "S", "D">>} =>
               ~Contains(result.text, InputValidationError)

\* C19 (as claimed): in every forex tool an exception raised by the service
\* call is passed to handle_api_error exactly once and the tool returns
\* exactly the string handle_api_error returns; there is no other path.
C19_SingleTranslation ==
    ToolDone /\ tool \in ForexTools /\ svcOutcome.kind = "error" =>
        /\ handled = 1
        /\ result = [raised |-> FALSE, text |-> handle_api_error(svcOutcome.error, ApiKey)]

\* get_forex_indicator has been invoked.
IndicatorCalled == tool = "get_forex_indicator" /\ tstage # "idle"

SupportedKinds == {"sma", "ema", "macd", "rsi", "bollinger"}

UnsupportedText == <<"Error:", "Unsupported indicator type.">>

\* The service method that goes with a supported indicator name.
MatchingMethod ==
    [k \in SupportedKinds |->
        IF k = "sma" THEN "get_sma" ELSE IF k = "ema" THEN "get_ema"
        ELSE IF k = "macd" THEN "get_macd" ELSE IF k = "rsi" THEN "get_rsi"
        ELSE "get_bollinger"]

\* C20 (as claimed): get_forex_indicator with a kind outside {sma, ema,
\* macd, rsi, bollinger} (case-insensitive) returns 'Error: Unsupported
\* indicator type.' without raising, with no service or upstream call and no
\* slot; with a kind inside exactly the matching service method is called
\* once.
C20_IndicatorAsClaimed ==
    IndicatorCalled =>
        /\ LowerKind(args.kind) \notin SupportedKinds =>
               /\ tstage = "done"
               /\ result = [raised |-> FALSE, text |-> UnsupportedText]
               /\ svcCalls = <<>> /\ upCalls = <<>> /\ slotsTaken = 0
        /\ LowerKind(args.kind) \in SupportedKinds =>
               /\ Len(svcCalls) = 1
               /\ svcCalls[1].method = MatchingMethod[LowerKind(args.kind)]

\* C20 (amended): the arguments are validated first. With a kind outside
\* the set the tool never raises, calls nothing and takes no slot, and
\* returns 'Error: Unsupported indicator type.' when ticker, timespan and
\* window pass validation (the validation failure's error string when they
\* do not); with a kind inside the set and valid arguments exactly the
\* matching service method is called once, and none on a validation failure.
C20_Indicator ==
    IndicatorCalled =>
        /\ LowerKind(args.kind) \notin SupportedKinds =>
               /\ tstage = "done"
               /\ ~result.raised
               /\ svcCalls = <<>> /\ upCalls = <<>> /\ slotsTaken = 0
               /\ failure # "validation" => result.text = UnsupportedText
               /\ failure = "validation" =>
                      result.text # UnsupportedText /\ result.text[1] = "Error:"
        /\ LowerKind(args.kind) \in SupportedKinds /\ failure # "validation" =>
               /\ Len(svcCalls) = 1
               /\ svcCalls[1].method = MatchingMethod[LowerKind(args.kind)]
        /\ failure = "validation" => svcCalls = <<>> /\ upCalls = <<>>

\* C20 witness: 'SMA' with a valid ticker has led to one call of get_sma.
C20_Witness ==
    /\ IndicatorCalled
    /\ args.kind = "SMA"
    /\ svcCalls = <<[method |-> "get_sma", arg |-> EURUSD]>>
    /\ slotsTaken = 1

\* C21: an invocation hands its blocking function to a worker at most once:
\* not before it holds a slot, once while it awaits, and an invocation that
\* ended with a result, a timeout or an error made exactly one attempt (no
\* retry after a failure, no result without a call of its own).
C21_SingleAttempt ==
    \A c \in Callers :
        /\ attempts[c] <= 1
        /\ pc[c] \in {"idle", "waiting", "holding"} => attempts[c] = 0
        /\ pc[c] = "awaiting" => attempts[c] = 1
        /\ pc[c] = "done" /\ outcome[c] # "Cancelled" => attempts[c] = 1

\* C21 witness: a call has timed out after its one attempt, whose function
\* is still running, and another has ended with an error after its one.
C21_Witness ==
    /\ \E c \in Callers : pc[c] = "done" /\ outcome[c] = "Timeout" /\ attempts[c] = 1
    /\ \E c \in Callers : pc[c] = "done" /\ outcome[c] = "Generic" /\ attempts[c] = 1
    /\ orphans >= 1

\* C22: once the timeout has fired the caller's outcome is Timeout for good
\* (until the caller takes it and calls again), the call is awaited no
\* longer, and the later completion of its blocking function changes no
\* caller's outcome or position and not the slot count.
C22_TimeoutFinal ==
    /\ [](\A c \in Callers : pc[c] = "done" => thr[c] = "none")
    /\ [][/\ \A c \in Callers :
                 pc[c] = "done" /\ outcome[c] = "Timeout" =>
                     \/ pc'[c] = "done" /\ outcome'[c] = "Timeout"
                     \/ pc'[c] = "idle"
          /\ orphans' < orphans =>
                 /\ outcome' = outcome
                 /\ pc' = pc
                 /\ semValue' = semValue
                 /\ semWaiters' = semWaiters]_vars

\* C22 witness: a call has timed out, its slot is back (all are free), and
\* its blocking function is still running, to complete later.
C22_Witness ==
    /\ \E c \in Callers : pc[c] = "done" /\ outcome[c] = "Timeout" /\ thr[c] = "none"
    /\ orphans >= 1
    /\ semValue = Capacity

\* C26 (as claimed): blocking functions of timed-out calls that are still
\* running take nothing from later callers: when a call that holds a slot
\* dispatches its blocking function, the function starts on a worker at
\* once, never queued behind the function of a timed-out call.
C26_DispatchStartsAtOnce ==
    [][\A c \in Callers :
           pc[c] = "holding" /\ pc'[c] = "awaiting" => thr'[c] = "running"]_vars

\* C27: an error outcome, Timeout included, is delivered only to a caller
\* that holds a slot and has dispatched its blocking function; a caller
\* suspended on the semaphore leaves the queue only by acquiring a slot (or
\* by the cancellation of its own task), never with Timeout or another error.
C27_TimeoutOnlyAfterDispatch ==
    [][\A c \in Callers :
           /\ outcome'[c] \notin {outcome[c], "none", "ok", "Cancelled"} =>
                  /\ pc[c] = "awaiting"
                  /\ c \in Holders
                  /\ attempts[c] = 1
           /\ pc[c] = "waiting" =>
                  \/ pc'[c] \in {"waiting", "holding"}
                  \/ pc'[c] = "done" /\ outcome'[c] = "Cancelled"]_vars

\* C27 witness: a call has ended with Timeout after its one dispatch, and
\* every slot is taken again, one of them by a caller that has its slot,
\* has not dispatched yet and has no outcome.
C27_Witness ==
    /\ \E c \in Callers : pc[c] = "done" /\ outcome[c] = "Timeout" /\ attempts[c] = 1
    /\ \E c \in Callers : pc[c] = "holding" /\ outcome[c] = "none" /\ attempts[c] = 0
    /\ semValue = 0

\* C28 (as claimed): for a requests HTTPError that carries a response,
\* handle_api_error returns the message of the response's status: 401
\* invalid credentials, 429 rate limit exceeded, 400 invalid request
\* parameters, 404 resource not found, 500..599 external API internal
\* error, and any other status N 'API request failed with status code N.'.
C28_HttpStatusMessages ==
    stage = "translated" /\ err.type = "HTTPError" /\ err.status # 0 =>
        LET N == err.status IN
        reply = CASE N = 401 -> <<"Error:", "Invalid API credentials.">>
                  [] N = 429 -> <<"Error:", "Rate limit", "exceeded.">>
                  [] N = 400 -> <<"Error:", "Invalid request parameters.">>
                  [] N = 404 -> <<"Error:", "Resource not found.">>
                  [] N >= 500 /\ N <= 599 -> <<"Error:", "External API internal error.">>
                  [] OTHER -> <<"Error:", "API request failed with status code", ToString(N)>>

GetCryptoPricesCalled == tool = "get_crypto_prices" /\ tstage \in {"awaiting", "done"}

\* The symbol list a symbols argument stands for: its comma-separated
\* pieces, trimmed and upper-cased, the empty ones dropped; <<>> where the
\* argument is empty, has only separators, or has a piece that is not 1 to 10
\* upper-case alphanumerics.
NormalizedSymbols(v) ==
    CASE v = <<"B", "T", "C">> -> <<(<<"B", "T", "C">>)>>
      [] v = <<"b", "t", "c">> -> <<(<<"B", "T", "C">>)>>
      [] v = <<"B", "T", "C", ",", " ", "X", "R", "C">> ->
             <<(<<"B", "T", "C">>), (<<"X", "R", "C">>)>>
      [] v = <<"B", ",", ",", " ", "e", "1", " ">> -> <<(<<"B">>), (<<"E", "1">>)>>
      [] v = <<"A", "B", "C", "D", "E", "F", "G", "H", "I", "J">> -> <<v>>
      [] OTHER -> <<>>

\* C24: for a symbols argument that fails validation get_crypto_prices
\* returns at once a string that begins 'Input Validation Error', and the
\* CoinMarketCap service is not called; for a valid argument the service's
\* get_quotes is called once, with the normalized symbol list.
C24_CryptoValidation ==
    GetCryptoPricesCalled =>
        IF NormalizedSymbols(args.ticker) = <<>>
        THEN /\ tstage = "done"
             /\ ~result.raised
             /\ result.text # <<>> /\ result.text[1] = InputValidationError
             /\ svcCalls = <<>>
             /\ upCalls = <<>>
        ELSE svcCalls = <<[method |-> "get_quotes", arg |-> NormalizedSymbols(args.ticker)]>>

\* C24 witness: an argument of separators only has been answered with the
\* validation error.
C24_Witness ==
    /\ GetCryptoPricesCalled /\ args.ticker = <<" ", ",", " ">>
    /\ failure = "validation"
    /\ result.text # <<>> /\ result.text[1] = InputValidationError

\* C25 (as claimed): an invocation of a monitored tool logs 'start' before
\* the body runs and exactly one 'finish' or 'crash' once the body, the
\* awaited service call included, has ended: 'finish' with status 'failure'
\* exactly when the result begins with 'Error:' and 'success' otherwise,
\* 'crash' when an exception escapes the body.
C25_MonitorEvents ==
    tool \in MonitoredTools =>
        /\ tstage = "awaiting" => events = <<LogEvent("start", "none")>>
        /\ tstage = "done" =>
               events = <<LogEvent("start", "none"),
                          IF result.raised THEN LogEvent("crash", "crash")
                          ELSE IF result.text # <<>> /\ result.text[1] = "Error:"
                               THEN LogEvent("finish", "failure")
                               ELSE LogEvent("finish", "success")>>

\* The service method get_prev_day has been called on its own.
PrevDayCalled == tool = DirectPrevDay /\ tstage # "idle"

\* s begins with one of the prefixes 'C:' and 'X:'.
HasPrefix(s) == Len(s) >= 2 /\ s[1] \in {"C", "X"} /\ s[2] = ":"

\* C29 (as claimed): both components of a pair _split_pair returns are
\* non-empty and hold no hyphen and no colon (so no 'C:' or 'X:' prefix);
\* and _ensure_prefix returns 'C:' followed by a ticker with no further
\* 'C:' or 'X:' prefix, a value it maps to itself.
C29_NormalizedTickers ==
    /\ DirectCalled /\ upCalls # <<>> =>
           \A i \in 1..2 :
               /\ PairUsed[i] # <<>>
               /\ \A j \in 1..Len(PairUsed[i]) : PairUsed[i][j] \notin {"-", ":"}
    /\ PrevDayCalled =>
           LET r == upCalls[1].args[1] IN
           /\ Len(r) >= 2 /\ SubSeq(r, 1, 2) = <<"C", ":">>
           /\ ~HasPrefix(SubSeq(r, 3, Len(r)))
           /\ _ensure_prefix(r) = r

\* An HTTP request under /mcp while a server key is configured.
McpRequest == scope.type = "http" /\ scope.path = "/mcp" /\ mcp_api_key # <<>>

\* The request carries an X-API-Key header that is exactly the configured key.
ExactKey == scope.key.present /\ scope.key.value = Utf8Encode(mcp_api_key)

\* C23 (as claimed): with a server key configured, an HTTP request under
\* /mcp whose X-API-Key header is missing or differs from the key is answered
\* 401 or 403 and the wrapped MCP application is never invoked for it; a
\* request with the exact key is passed to the wrapped application.
C23_McpRequiresKey ==
    McpRequest =>
        /\ ~ExactKey => appInvoked = 0
        /\ ~ExactKey /\ hstage = "done" => clientStatus \in {401, 403}
        /\ ExactKey /\ hstage \notin {"idle", "inner"} => appInvoked = 1

\* The request lines among the records of the logging middleware.
RequestLines == SelectSeq(httpLog, LAMBDA r : r.kind = "request")

\* C30: for an HTTP scope RequestLoggingMiddleware writes exactly one
\* request line, and only once the inner application has returned or raised:
\* its status is that of the http.response.start message the inner
\* application sent, or 500 if it sent none, and it is the last record
\* before an exception of the inner application leaves the middleware as it
\* was raised; for any other scope nothing is logged.
C30_OneRequestLine ==
    /\ hstage \in {"idle", "inner", "app", "returned", "raising"} => httpLog = <<>>
    /\ hstage = "done" =>
           /\ propagated = hraised
           /\ IF scope.type = "http"
              THEN /\ RequestLines =
                          <<LogLine("request", IF sent # <<>> THEN sent[Len(sent)] ELSE 500)>>
                   /\ httpLog[Len(httpLog)].kind = "request"
              ELSE httpLog = <<>>

\* C30 witness: the inner application started a 200 response and then
\* raised; the error record and then the request line with status 200 have
\* been written and the exception has left the middleware.
C30_Witness ==
    /\ hstage = "done" /\ scope.type = "http"
    /\ sent = <<200>>
    /\ propagated = "Exception"
    /\ httpLog = <<LogLine("error", 0), LogLine("request", 200)>>

====
